---- MODULE Spec2Model ----
(***************************************************************************)
(* Model of src/main.py: AssistantManager, the orchestrator that drives a  *)
(* remote assistant run (thread, run, poll loop, tool dispatch, tool       *)
(* output submission, summary extraction), together with the remote        *)
(* service and the news provider it talks to, which are the environment.   *)
(*                                                                         *)
(* Python's None is modelled as 0 for the object handles (assistant,       *)
(* thread, run) and as the string "None" for the summary and for return    *)
(* values.  Time is counted in seconds since start_time of the running     *)
(* wait_for_completion call (elapsed = time.time() - start_time).          *)
(***************************************************************************)
EXTENDS Integers, Sequences, FiniteSets, TLC

\* ------------------------------------------------------------------ bounds
\* runs the remote service is asked to create over one instance's life
MaxRuns == 2
\* messages the thread may hold
MaxMsgs == 3
\* tool calls in one RequiredAction batch
MaxBatch == 2
\* seconds one wait_for_completion call may spend inside remote calls
MaxCallTime == 1
\* poll ticks of one wait_for_completion call that are observed in detail
MaxTicks == 3
\* interval and timeout arguments of a wait_for_completion call made from
\* outside process_news_request
MaxInterval == 1
MaxTimeout == 3

\* ------------------------------------------------------- program constants
\* wait_for_completion(self, interval: int = 2, timeout: int = 100)
DEFAULT_INTERVAL == 2
DEFAULT_TIMEOUT == 100

\* ------------------------------------------------------------------ values
NoneStr == "None"
Topics == {"bitcoin"}

PendingStatuses == {"queued", "in_progress"}
AbnormalStatuses == {"failed", "cancelled", "expired"}
TerminalStatuses == {"completed"} \cup AbnormalStatuses
Statuses == PendingStatuses \cup {"requires_action"} \cup TerminalStatuses

\* A ToolCall as delivered in run.required_action.submit_tool_outputs:
\* id, function name, and the argument text, of which the model keeps what
\* json.loads and the lookup of 'topic' make of it.
ToolNames == {"get_news", "other_tool"}
ArgTexts == {"topic", "no_topic", "malformed"}
ToolCallIds == 1..MaxBatch
ToolCalls == [id : ToolCallIds, name : ToolNames, arguments : ArgTexts]

\* the batches the remote service may ask for: identifiers are unique within
\* one batch, in any order
SeqsUpTo(S, n) == UNION {[1..k -> S] : k \in 0..n}
Batches ==
    {b \in SeqsUpTo(ToolCalls, MaxBatch) :
        \A i, j \in 1..Len(b) : b[i].id = b[j].id => i = j}

\* exceptions, by the place that raises them
Err(kind, status) == [kind |-> kind, status |-> status]
NoErr == Err("none", "none")
ErrAPI == Err("APIError", "none")
ErrNotInitialized == Err("ValueError_not_initialized", "none")
ErrJSONDecode == Err("JSONDecodeError", "none")
ErrKey == Err("KeyError_topic", "none")
ErrUnknownFunction == Err("ValueError_unknown_function", "none")
ErrTimeout == Err("TimeoutError", "none")
ErrRunFailed(status) == Err("Exception_run_failed", status)

VARIABLES
    \* AssistantManager instance state
    assistant,      \* self.assistant: 0 or the assistant id
    thread,         \* self.thread: 0 or the thread id
    run,            \* self.run: 0 or the id of the latest run
    summary,        \* self.summary: "None" or a text
    \* control
    pc,             \* position of the single thread of control
    caller,         \* "pnr" inside process_news_request, else "direct"
    \* locals of the running wait_for_completion call (0 when none runs)
    interval,       \* its interval argument
    timeout,        \* its timeout argument
    elapsed,        \* time.time() - start_time
    callTime,       \* seconds of elapsed spent inside remote calls
    ticks,          \* status fetches made, counted up to MaxTicks
    \* remote service
    runStatus,      \* each run at the remote service: "none" (not created),
                    \* "active" (queued, in_progress or requires_action),
                    \* the terminal status it ended in, or "ended" for a
                    \* run that ended and is no longer self.run
    messages,       \* messages of the thread, oldest first
    \* what the caller and the remote service observe
    op,             \* the public method called last
    ret,            \* what the last public call gave its caller
    err,            \* the exception the last public call raised or logged
    obs,            \* the fetch and tool dispatch of its latest poll tick
    scen,           \* progress of that call through the sequence queued,
                    \* requires_action (one get_news call), completed
    created,        \* threads.create and assistants.create calls that have
                    \* succeeded, how many of them during the current public
                    \* call, and the configuration assistants.create was
                    \* given last
    resub           \* consecutive poll ticks of the current wait, the
                    \* latest included, on which the batch RepeatedBatch was
                    \* dispatched and submitted (counted up to 2)

vars == <<assistant, thread, run, summary, pc, caller, interval, timeout, elapsed,
          callTime, ticks, runStatus, messages, op, ret, err, obs, scen,
          created, resub>>

instanceVars == <<assistant, thread, run, summary>>
waitVars == <<interval, timeout, elapsed, callTime, ticks>>

\* What the remote service has seen of the latest poll tick, or of the
\* latest handle_required_actions call made from outside: the status
\* runs.retrieve answered, the size of the RequiredAction batch that
\* handle_required_actions was given, the ToolCalls its for loop took from
\* the batch (all of them unless a dispatch raised, then those up to the one
\* that raised), what became of the requests get_news made to the news
\* provider ("unused" when none was made), whether it called
\* submit_tool_outputs and with which tool_outputs.  Only the first MaxTicks poll ticks of a wait are observed;
\* after them the record is Unobserved.
NoObs == [fetched |-> "none", handled |-> FALSE, size |-> 0, calls |-> <<>>,
          net |-> "unused", submit |-> FALSE, outputs |-> <<>>]
Unobserved == [fetched |-> "unobserved", handled |-> FALSE, size |-> 0,
               calls |-> <<>>, net |-> "unused", submit |-> FALSE,
               outputs |-> <<>>]

\* ------------------------------------------------------------- pure helpers
RECURSIVE Reverse(_)
Reverse(s) == IF s = <<>> THEN <<>> ELSE Append(Reverse(Tail(s)), Head(s))

RECURSIVE Join(_)
\* ''.join(output)
Join(s) == IF s = <<>> THEN "" ELSE Head(s) \o Join(Tail(s))

\* json.dumps of a string
JsonDumps(s) == "\"" \o s \o "\""

\* GetNews returning the text of the error instead of [] when the request
\* raises
GetNews_ErrorText(netOk) == IF netOk THEN <<"article">> ELSE <<"error">>

\* NewsAPIClient.get_news: the formatted articles, or [] when the request
\* raises RequestException
GetNews(netOk) == IF netOk THEN <<"article">> ELSE <<>>

\* DispatchErr with the else branch of line 190 skipping the call instead of
\* raising
DispatchErr_SkipUnknown(action) ==
    IF action.arguments = "malformed" THEN ErrJSONDecode
    ELSE IF action.name = "get_news" /\ action.arguments = "no_topic"
         THEN ErrKey ELSE NoErr

\* the body of the for loop of handle_required_actions for one ToolCall:
\* the exception it raises (json.loads first, then the branch on the name)
DispatchErr(action) ==
    IF action.arguments = "malformed" THEN ErrJSONDecode
    ELSE IF action.name = "get_news"
         THEN IF action.arguments = "no_topic" THEN ErrKey ELSE NoErr
         ELSE ErrUnknownFunction

\* ToolOutput that gives every output the identifier 1 instead of action["id"]
ToolOutput_FixedId(action, netOk) ==
    [tool_call_id |-> 1, output |-> JsonDumps(Join(GetNews(netOk)))]

\* the tool output it appends when it raises nothing
ToolOutput(action, netOk) ==
    [tool_call_id |-> action.id, output |-> JsonDumps(Join(GetNews(netOk)))]

\* the for loop of handle_required_actions over tool_calls[i..]: outputs
\* collected so far in acc; netOk tells whether the news provider answers
RECURSIVE DispatchAll(_, _, _, _)
DispatchAll(batch, netOk, i, acc) ==
    IF i > Len(batch) THEN [err |-> NoErr, outputs |-> acc]
    ELSE IF DispatchErr(batch[i]) # NoErr
         THEN [err |-> DispatchErr(batch[i]), outputs |-> acc]
         ELSE DispatchAll(batch, netOk, i + 1,
                          Append(acc, ToolOutput(batch[i], netOk)))

\* HandleRequiredActions with the submission moved to a finally clause: what
\* was collected is submitted even when a dispatch raised
HandleRequiredActions_SubmitInFinally(batch, netOk, submitOk) ==
    LET d == DispatchAll(batch, netOk, 1, <<>>) IN
    [err |-> IF d.err # NoErr THEN d.err
             ELSE IF submitOk THEN NoErr ELSE ErrAPI,
     taken |-> IF d.err # NoErr THEN Len(d.outputs) + 1 ELSE Len(batch),
     submit |-> TRUE, tool_outputs |-> d.outputs]

\* handle_required_actions past its guard: the exception raised (NoErr when
\* it returns), how many ToolCalls the for loop took from the batch, whether
\* submit_tool_outputs is called and with which tool_outputs; submitOk tells
\* whether the remote service accepts the submission
HandleRequiredActions(batch, netOk, submitOk) ==
    LET d == DispatchAll(batch, netOk, 1, <<>>) IN
    IF d.err # NoErr
    THEN [err |-> d.err, taken |-> Len(d.outputs) + 1,
          submit |-> FALSE, tool_outputs |-> <<>>]
    ELSE [err |-> IF submitOk THEN NoErr ELSE ErrAPI, taken |-> Len(batch),
          submit |-> TRUE, tool_outputs |-> d.outputs]

\* ProcessMessages reading the oldest message of the list instead of data[0]
ProcessMessages_Oldest(data, old) ==
    IF data # <<>>
    THEN LET last_message == data[Len(data)] IN
         IF last_message.role = "assistant" /\ last_message.content # <<>>
         THEN last_message.content[1]
         ELSE old
    ELSE old

\* process_messages past its guard, given what messages.list returned
\* (newest first): the new value of self.summary
ProcessMessages(data, old) ==
    IF data # <<>>
    THEN LET last_message == data[1] IN
         IF last_message.role = "assistant" /\ last_message.content # <<>>
         THEN last_message.content[1]
         ELSE old
    ELSE old

\* messages.list: the thread's messages, newest first
ListMessages(msgs) == Reverse(msgs)

\* f"summarize the news on this topic {topic}"
Prompt(topic) == "summarize the news on this topic " \o topic

Message(role, content) == [role |-> role, content |-> content]

\* the record of the current call after a fetch answered status, within the
\* observed ticks
Fetched(status) ==
    IF ticks >= MaxTicks THEN Unobserved
    ELSE [NoObs EXCEPT !.fetched = status]

\* the record after a handle_required_actions call that went as g
Handled(o, g) ==
    IF o = Unobserved THEN Unobserved
    ELSE [o EXCEPT !.handled = TRUE, !.size = g.size, !.calls = g.calls,
                   !.net = g.net, !.submit = g.submit, !.outputs = g.outputs]

\* the status kept of a run once self.run holds a later one: it is never
\* fetched again, so all that is kept of a terminal status is "ended"
Released(status) == IF status \in TerminalStatuses THEN "ended" ELSE status

\* runs the remote service has created so far
CreatedRuns == {r \in 1..MaxRuns : runStatus[r] # "none"}

\* the text of the remote service's answer to run r
AnswerText(r) == "answer " \o ToString(r)

\* what the remote service has added to the thread when run r completes:
\* nothing, or one assistant message, with or without content
Replies(r) ==
    {<<>>, <<Message("assistant", <<>>)>>,
     <<Message("assistant", <<AnswerText(r)>>)>>}

\* what the remote service may report for a run: a terminal status stays
Reportable(r) ==
    IF runStatus[r] \in TerminalStatuses THEN {runStatus[r]} ELSE Statuses

\* the batches of one get_news call with a topic.  scen follows the fetches
\* of a wait through the sequence queued, requires_action with such a batch,
\* completed with an assistant answer newest in the thread: 1, 2, 3 as far
\* as they have followed it with every remote call succeeding, -1 once they
\* have left it
ScenarioBatches ==
    {b \in Batches : Len(b) = 1 /\ b[1].name = "get_news"
                     /\ b[1].arguments = "topic"}

\* the batch whose repeated delivery resub follows
RepeatedBatch == <<[id |-> 1, name |-> "get_news", arguments |-> "topic"]>>

\* ---------------------------------------------------------- initial state
\* AssistantManager.__init__: nothing exists at the remote service yet
Init ==
    /\ assistant = 0 /\ thread = 0 /\ run = 0 /\ summary = NoneStr
    /\ pc = "idle" /\ caller = "direct"
    /\ interval = 0 /\ timeout = 0 /\ elapsed = 0 /\ callTime = 0 /\ ticks = 0
    /\ runStatus = [r \in 1..MaxRuns |-> "none"]
    /\ messages = <<>>
    /\ op = "none" /\ ret = NoneStr /\ err = NoErr
    /\ obs = NoObs /\ scen = 0
    /\ created = [threads |-> 0, assistants |-> 0, byCall |-> 0,
                  config |-> "none"]
    /\ resub = 0

\* ------------------------------------------------------------ control flow
DirectMethods == {"create_thread", "create_assistant", "add_message_to_thread",
                  "run_assistant", "handle_required_actions",
                  "process_messages", "wait_for_completion"}

\* PnrNext with lines 117 and 118 swapped: the run is started before the
\* message is posted
PnrNext_RunFirst(method) ==
    CASE method = "create_thread" -> "create_assistant"
      [] method = "create_assistant" -> "run_assistant"
      [] method = "run_assistant" -> "add_message_to_thread"
      [] method = "add_message_to_thread" -> "wait_for_completion"

\* the statement of process_news_request that follows the call of `method`
PnrNext(method) ==
    CASE method = "create_thread" -> "create_assistant"
      [] method = "create_assistant" -> "add_message_to_thread"
      [] method = "add_message_to_thread" -> "run_assistant"
      [] method = "run_assistant" -> "wait_for_completion"

\* a method returns normally: to its caller process_news_request, which goes
\* on with its next statement, or to the outside caller
Returned(method) ==
    IF caller = "pnr"
    THEN /\ pc' = PnrNext(method)
         /\ UNCHANGED <<caller, ret, err>>
    ELSE /\ pc' = "idle"
         /\ ret' = NoneStr
         /\ err' = NoErr
         /\ UNCHANGED caller

\* Raised with the except branch of process_news_request returning
\* self.summary instead of None
Raised_ReturnsSummary(e) ==
    /\ pc' = "idle"
    /\ caller' = "direct"
    /\ err' = e
    /\ ret' = IF caller = "pnr" THEN summary ELSE "raised"

\* a method raises e: process_news_request logs it and returns None (lines
\* 121-123), an outside caller sees the exception
Raised(e) ==
    /\ pc' = "idle"
    /\ caller' = "direct"
    /\ err' = e
    /\ ret' = IF caller = "pnr" THEN NoneStr ELSE "raised"

\* wait_for_completion is left: its locals are gone
WaitLeft ==
    interval' = 0 /\ timeout' = 0 /\ elapsed' = 0 /\ callTime' = 0 /\ ticks' = 0

\* the outside caller calls one of `methods`, methods other than
\* process_news_request
CallOf(methods) ==
    /\ pc = "idle"
    /\ \E m \in methods :
        /\ pc' = m
        /\ op' = m
    /\ caller' = "direct"
    /\ ret' = "pending" /\ err' = NoErr
    /\ obs' = NoObs /\ scen' = 0
    /\ created' = [created EXCEPT !.byCall = 0]
    /\ UNCHANGED <<instanceVars, waitVars, runStatus, messages, resub>>

Call == CallOf(DirectMethods)

\* the outside caller calls wait_for_completion(interval, timeout)
CallWait == CallOf({"wait_for_completion"})

\* the outside caller calls one of the methods that set the instance up
CallSetup ==
    CallOf({"create_thread", "create_assistant", "add_message_to_thread"})

\* the outside caller calls create_thread, create_assistant or one of the
\* four methods that test what the instance holds before they act
CallGuard ==
    CallOf({"create_thread", "create_assistant", "run_assistant",
            "handle_required_actions", "process_messages",
            "wait_for_completion"})

\* the outside caller calls process_news_request(topic): the try block is
\* entered and its first statement is next
ProcessNewsRequest ==
    /\ pc = "idle"
    /\ pc' = "create_thread"
    /\ op' = "process_news_request"
    /\ caller' = "pnr"
    /\ ret' = "pending" /\ err' = NoErr
    /\ obs' = NoObs /\ scen' = 0
    /\ created' = [created EXCEPT !.byCall = 0]
    /\ UNCHANGED <<instanceVars, waitVars, runStatus, messages, resub>>

\* ------------------------------------------------------------- operations
\* threads.create has returned a thread
ThreadCreated ==
    [created EXCEPT !.threads = @ + 1, !.byCall = @ + 1]

\* assistants.create, given config, has returned an assistant
AssistantCreated(config) ==
    [created EXCEPT !.assistants = @ + 1, !.byCall = @ + 1, !.config = config]

\* the configuration create_assistant uses: process_news_request passes no
\* custom_config, an outside caller may
Configs == IF caller = "pnr" THEN {"default"} ELSE {"default", "custom"}

\* lines 137-138 of add_message_to_thread once create_thread has not raised:
\* the thread held, or a new one
ThreadEnsured ==
    IF thread = 0
    THEN /\ thread' = created.threads + 1
         /\ created' = ThreadCreated
    ELSE UNCHANGED <<thread, created>>

\* CreateThread without the test of line 127: threads.create on every call
CreateThread_Always ==
    /\ pc = "create_thread"
    /\ \/ /\ thread' = created.threads + 1
          /\ created' = ThreadCreated
          /\ Returned("create_thread")
       \/ /\ Raised(ErrAPI)
          /\ UNCHANGED <<thread, created>>
    /\ UNCHANGED <<assistant, run, summary, waitVars, runStatus, messages, op,
                   obs, scen, resub>>

\* create_thread: threads.create only when no thread is held
CreateThread ==
    /\ pc = "create_thread"
    /\ \/ /\ thread # 0
          /\ Returned("create_thread")
          /\ UNCHANGED <<thread, created>>
       \/ /\ thread = 0
          /\ thread' = created.threads + 1
          /\ created' = ThreadCreated
          /\ Returned("create_thread")
       \/ /\ thread = 0
          /\ Raised(ErrAPI)
          /\ UNCHANGED <<thread, created>>
    /\ UNCHANGED <<assistant, run, summary, waitVars, runStatus, messages, op,
                   obs, scen, resub>>

\* CreateAssistant that creates the assistant anew when it is given a custom
\* configuration
CreateAssistant_CustomRecreates ==
    /\ pc = "create_assistant"
    /\ \E config \in Configs :
       \/ /\ assistant # 0 /\ config = "default"
          /\ Returned("create_assistant")
          /\ UNCHANGED <<assistant, created>>
       \/ /\ assistant = 0 \/ config = "custom"
          /\ assistant' = created.assistants + 1
          /\ created' = AssistantCreated(config)
          /\ Returned("create_assistant")
       \/ /\ assistant = 0 \/ config = "custom"
          /\ Raised(ErrAPI)
          /\ UNCHANGED <<assistant, created>>
    /\ UNCHANGED <<thread, run, summary, waitVars, runStatus, messages, op,
                   obs, scen, resub>>

\* create_assistant(custom_config): assistants.create, with the custom or the
\* default configuration, only when no assistant is held
CreateAssistant ==
    /\ pc = "create_assistant"
    /\ \E config \in Configs :
       \/ /\ assistant # 0
          /\ Returned("create_assistant")
          /\ UNCHANGED <<assistant, created>>
       \/ /\ assistant = 0
          /\ assistant' = created.assistants + 1
          /\ created' = AssistantCreated(config)
          /\ Returned("create_assistant")
       \/ /\ assistant = 0
          /\ Raised(ErrAPI)
          /\ UNCHANGED <<assistant, created>>
    /\ UNCHANGED <<thread, run, summary, waitVars, runStatus, messages, op,
                   obs, scen, resub>>

\* AddMessageToThread raising when there is no thread instead of creating one
AddMessageToThread_RequiresThread ==
    /\ pc = "add_message_to_thread"
    /\ Len(messages) < MaxMsgs
    /\ \E topic \in Topics :
        \/ /\ thread = 0
           /\ Raised(ErrNotInitialized)
           /\ UNCHANGED messages
        \/ /\ thread # 0
           /\ Raised(ErrAPI)
           /\ UNCHANGED messages
        \/ /\ thread # 0
           /\ messages' = Append(messages, Message("user", <<Prompt(topic)>>))
           /\ Returned("add_message_to_thread")
    /\ UNCHANGED <<assistant, thread, created, run, summary, waitVars,
                   runStatus, op, obs, scen, resub>>

\* add_message_to_thread(role, content): creates the thread when there is
\* none, then messages.create
AddMessageToThread ==
    /\ pc = "add_message_to_thread"
    /\ Len(messages) < MaxMsgs
    /\ \E topic \in Topics :
        \* create_thread raises
        \/ /\ thread = 0
           /\ Raised(ErrAPI)
           /\ UNCHANGED <<thread, created, messages>>
        \* a thread is held or has been created, messages.create raises
        \/ /\ ThreadEnsured
           /\ Raised(ErrAPI)
           /\ UNCHANGED messages
        \/ /\ ThreadEnsured
           /\ messages' = Append(messages, Message("user", <<Prompt(topic)>>))
           /\ Returned("add_message_to_thread")
    /\ UNCHANGED <<assistant, run, summary, waitVars, runStatus, op, obs, scen,
                   resub>>

\* RunAssistant without the test of line 154: a run is created whether
\* a thread is held or not
RunAssistant_NoThreadTest ==
    /\ pc = "run_assistant"
    /\ \/ /\ assistant = 0
          /\ Raised(ErrNotInitialized)
          /\ UNCHANGED <<run, runStatus>>
       \/ /\ assistant # 0
          /\ Raised(ErrAPI)
          /\ UNCHANGED <<run, runStatus>>
       \/ /\ assistant # 0
          /\ Cardinality(CreatedRuns) < MaxRuns
          /\ LET id == Cardinality(CreatedRuns) + 1 IN
                /\ run' = id
                /\ runStatus' = [r \in 1..MaxRuns |->
                                    IF r = id THEN "active"
                                    ELSE Released(runStatus[r])]
          /\ Returned("run_assistant")
    /\ UNCHANGED <<assistant, thread, summary, waitVars, messages, op, obs, scen,
                   created, resub>>

\* run_assistant: runs.create on the thread; the new run is active
RunAssistant ==
    /\ pc = "run_assistant"
    /\ \/ /\ assistant = 0 \/ thread = 0
          /\ Raised(ErrNotInitialized)
          /\ UNCHANGED <<run, runStatus>>
       \/ /\ assistant # 0 /\ thread # 0
          /\ Raised(ErrAPI)
          /\ UNCHANGED <<run, runStatus>>
       \/ /\ assistant # 0 /\ thread # 0
          /\ Cardinality(CreatedRuns) < MaxRuns
          /\ LET id == Cardinality(CreatedRuns) + 1 IN
                /\ run' = id
                /\ runStatus' = [r \in 1..MaxRuns |->
                                    IF r = id THEN "active"
                                    ELSE Released(runStatus[r])]
          /\ Returned("run_assistant")
    /\ UNCHANGED <<assistant, thread, summary, waitVars, messages, op, obs, scen,
                   created, resub>>

\* wait_for_completion(interval, timeout): the guard and start_time;
\* process_news_request calls it with the defaults
WaitForCompletion ==
    /\ pc = "wait_for_completion"
    /\ \/ /\ thread = 0 \/ run = 0
          /\ Raised(ErrNotInitialized)
          /\ UNCHANGED waitVars
       \/ /\ thread # 0 /\ run # 0
          /\ \E i \in IF caller = "pnr" THEN {DEFAULT_INTERVAL} ELSE 1..MaxInterval,
                t \in IF caller = "pnr" THEN {DEFAULT_TIMEOUT} ELSE 0..MaxTimeout :
                /\ interval' = i
                /\ timeout' = t
          /\ elapsed' = 0
          /\ callTime' = 0
          /\ ticks' = 0
          /\ pc' = "wfc_check"
          /\ UNCHANGED <<caller, ret, err>>
    /\ UNCHANGED <<instanceVars, runStatus, messages, op, obs, scen, created,
                   resub>>

\* WfcCheck with >= in place of > in the deadline test
WfcCheck_AtBudget ==
    /\ pc = "wfc_check"
    /\ IF elapsed >= timeout
       THEN /\ Raised(ErrTimeout)
            /\ WaitLeft
            /\ scen' = 0 /\ resub' = 0
            /\ UNCHANGED obs
       ELSE /\ pc' = "wfc_sleep"
            /\ obs' = NoObs
            /\ UNCHANGED <<caller, ret, err, waitVars, scen, resub>>
    /\ UNCHANGED <<instanceVars, runStatus, messages, op, created>>

\* WfcCheck with the deadline test allowing one more interval
WfcCheck_OneMoreInterval ==
    /\ pc = "wfc_check"
    /\ IF elapsed > timeout + interval
       THEN /\ Raised(ErrTimeout)
            /\ WaitLeft
            /\ scen' = 0 /\ resub' = 0
            /\ UNCHANGED obs
       ELSE /\ pc' = "wfc_sleep"
            /\ obs' = NoObs
            /\ UNCHANGED <<caller, ret, err, waitVars, scen, resub>>
    /\ UNCHANGED <<instanceVars, runStatus, messages, op, created>>

\* line 235: the deadline test at the head of the loop; a tick begins when it
\* lets the loop go on
WfcCheck ==
    /\ pc = "wfc_check"
    /\ IF elapsed > timeout
       THEN /\ Raised(ErrTimeout)
            /\ WaitLeft
            /\ scen' = 0 /\ resub' = 0
            /\ UNCHANGED obs
       ELSE /\ pc' = "wfc_sleep"
            /\ obs' = NoObs
            /\ UNCHANGED <<caller, ret, err, waitVars, scen, resub>>
    /\ UNCHANGED <<instanceVars, runStatus, messages, op, created>>

\* line 238: time.sleep(interval)
WfcSleep ==
    /\ pc = "wfc_sleep"
    /\ elapsed' = elapsed + interval
    /\ pc' = "wfc_retrieve"
    /\ UNCHANGED <<instanceVars, caller, interval, timeout, callTime, ticks,
                   runStatus, messages, op, ret, err, obs, scen, created,
                   resub>>

\* the loop is left by break: wait_for_completion returns, and
\* process_news_request returns self.summary (line 120)
WaitReturned(newSummary) ==
    IF caller = "pnr"
    THEN /\ pc' = "idle"
         /\ caller' = "direct"
         /\ ret' = newSummary
         /\ err' = NoErr
    ELSE Returned("wait_for_completion")

\* NextTick going straight to the next status fetch, without the deadline
\* test and the sleep
NextTick_FastPath ==
    /\ pc' = "wfc_retrieve"
    /\ \E d \in 0..(MaxCallTime - callTime) :
        /\ elapsed' = elapsed + d
        /\ callTime' = callTime + d
    /\ ticks' = IF ticks < MaxTicks THEN ticks + 1 ELSE ticks
    /\ UNCHANGED <<interval, timeout, caller, ret, err>>

\* the loop goes on with its next tick; the remote calls of this one took
\* some d seconds
NextTick ==
    /\ pc' = "wfc_check"
    /\ \E d \in 0..(MaxCallTime - callTime) :
        /\ elapsed' = elapsed + d
        /\ callTime' = callTime + d
    /\ ticks' = IF ticks < MaxTicks THEN ticks + 1 ELSE ticks
    /\ UNCHANGED <<interval, timeout, caller, ret, err>>

\* the news provider and the submission are reached only when every
\* dispatch of the batch succeeds: only then their outcome is a choice
Reached(batch) ==
    IF DispatchAll(batch, TRUE, 1, <<>>).err = NoErr THEN BOOLEAN ELSE {TRUE}

\* how a handle_required_actions(batch) call goes: what it raises, and what
\* of it is observed
Handling(batch, netOk, submitOk) ==
    LET h == HandleRequiredActions(batch, netOk, submitOk) IN
    [err |-> h.err, size |-> Len(batch), calls |-> SubSeq(batch, 1, h.taken),
     net |-> IF \A i \in 1..h.taken : batch[i].name # "get_news" \/
                                      DispatchErr(batch[i]) # NoErr
             THEN "unused"
             ELSE IF netOk THEN "answered" ELSE "failed",
     submit |-> h.submit, outputs |-> h.tool_outputs]

\* the ways a handle_required_actions call can go, over the batches the remote
\* service may deliver and the answers of the news provider and of
\* submit_tool_outputs
HandlingsOf(batches) ==
    UNION {{Handling(b, netOk, submitOk) :
                netOk \in Reached(b), submitOk \in Reached(b)} : b \in batches}

Handlings == HandlingsOf(Batches)

\* past the observed ticks nothing but the exception is kept of a call, and
\* the batches of one ToolCall raise every exception
UnobservedHandlings ==
    HandlingsOf({b \in Batches : Len(b) = 1 /\ b[1].id = 1})

\* lines 246-248: status completed; process_messages lists the thread, to
\* which the remote service has added its reply, and the loop is left
OnCompleted(status) ==
    /\ \E reply \in Replies(run) :
          /\ Len(messages) + Len(reply) <= MaxMsgs
          /\ messages' = messages \o reply
    /\ \/ \* messages.list raises
          /\ Raised(ErrAPI)
          /\ scen' = 0
          /\ UNCHANGED summary
       \/ /\ summary' = ProcessMessages(ListMessages(messages'), summary)
          /\ WaitReturned(summary')
          /\ scen' = IF /\ scen = 2
                        /\ messages' # <<>>
                        /\ messages'[Len(messages')].role = "assistant"
                        /\ messages'[Len(messages')].content # <<>>
                     THEN 3 ELSE 0
    /\ obs' = Fetched(status)
    /\ resub' = 0
    /\ WaitLeft

\* lines 249-250: status requires_action; handle_required_actions is given
\* the batch, and the loop goes on unless it raises
OnRequiresAction(status) ==
    /\ \E g \in IF ticks >= MaxTicks THEN UnobservedHandlings ELSE Handlings :
         /\ obs' = Handled(Fetched(status), g)
         /\ IF g.err # NoErr
            THEN /\ Raised(g.err)
                 /\ WaitLeft
                 /\ scen' = 0 /\ resub' = 0
            ELSE /\ NextTick
                 /\ scen' = IF scen = 1 /\ g.calls \in ScenarioBatches
                            THEN 2 ELSE -1
                 /\ resub' = IF ticks < MaxTicks /\ g.calls = RepeatedBatch
                             THEN (IF resub = 0 THEN 1 ELSE 2) ELSE 0
    /\ UNCHANGED <<summary, messages>>

\* OnAbnormal without the elif of line 251: the status matches no branch and
\* the loop goes on
OnAbnormal_NoBranch(status) ==
    /\ NextTick
    /\ scen' = -1 /\ resub' = 0
    /\ obs' = Fetched(status)
    /\ UNCHANGED <<summary, messages>>

\* lines 251-252: status failed, cancelled or expired
OnAbnormal(status) ==
    /\ Raised(ErrRunFailed(status))
    /\ WaitLeft
    /\ scen' = 0 /\ resub' = 0
    /\ obs' = Fetched(status)
    /\ UNCHANGED <<summary, messages>>

\* no branch matches (queued, in_progress): the loop goes on
OnPending(status) ==
    /\ NextTick
    /\ scen' = IF scen = 0 /\ status = "queued" THEN 1 ELSE -1
    /\ resub' = 0
    /\ obs' = Fetched(status)
    /\ UNCHANGED <<summary, messages>>

\* lines 239-252: runs.retrieve and the branch on run.status, with the calls
\* of process_messages and handle_required_actions it makes
WfcRetrieve ==
    /\ pc = "wfc_retrieve"
    /\ UNCHANGED <<assistant, thread, run, op, created>>
    /\ \/ \* runs.retrieve raises
          /\ Raised(ErrAPI)
          /\ WaitLeft
          /\ scen' = 0 /\ resub' = 0
          /\ UNCHANGED <<summary, runStatus, messages, obs>>
       \/ \E status \in Reportable(run) :
          /\ runStatus' = [runStatus EXCEPT ![run] =
                                IF status \in TerminalStatuses THEN status
                                ELSE "active"]
          /\ \/ status = "completed" /\ OnCompleted(status)
             \/ status = "requires_action" /\ OnRequiresAction(status)
             \/ status \in AbnormalStatuses /\ OnAbnormal(status)
             \/ status \in PendingStatuses /\ OnPending(status)

\* handle_required_actions(required_actions) called from outside
HandleRequiredActionsCall ==
    /\ pc = "handle_required_actions"
    /\ \/ /\ run = 0
          /\ Raised(ErrNotInitialized)
          /\ UNCHANGED obs
       \/ /\ run # 0
          /\ \E g \in Handlings :
               /\ obs' = Handled(obs, g)
               /\ IF g.err # NoErr
                  THEN Raised(g.err)
                  ELSE Returned("handle_required_actions")
    /\ UNCHANGED <<instanceVars, waitVars, runStatus, messages, op, scen,
                   created, resub>>

\* process_messages called from outside
ProcessMessagesCall ==
    /\ pc = "process_messages"
    /\ \/ /\ thread = 0
          /\ Raised(ErrNotInitialized)
          /\ UNCHANGED summary
       \/ /\ thread # 0
          /\ Raised(ErrAPI)
          /\ UNCHANGED summary
       \/ /\ thread # 0
          /\ summary' = ProcessMessages(ListMessages(messages), summary)
          /\ Returned("process_messages")
    /\ UNCHANGED <<assistant, thread, run, waitVars, runStatus, messages, op,
                   obs, scen, created, resub>>

Next ==
    \/ Call
    \/ ProcessNewsRequest
    \/ CreateThread
    \/ CreateAssistant
    \/ AddMessageToThread
    \/ RunAssistant
    \/ WaitForCompletion
    \/ WfcCheck
    \/ WfcSleep
    \/ WfcRetrieve
    \/ HandleRequiredActionsCall
    \/ ProcessMessagesCall

Spec == Init /\ [][Next]_vars

\* the instance is driven through process_news_request alone, as
\* create_streamlit_app drives it
NextPnr ==
    \/ ProcessNewsRequest
    \/ CreateThread
    \/ CreateAssistant
    \/ AddMessageToThread
    \/ RunAssistant
    \/ WaitForCompletion
    \/ WfcCheck
    \/ WfcSleep
    \/ WfcRetrieve

PnrSpec == Init /\ [][NextPnr]_vars

\* The steps that stay inside the process take place: the deadline test and
\* the sleep.  A step that waits for the remote service or for the news
\* provider (WfcRetrieve: runs.retrieve, submit_tool_outputs, messages.list,
\* requests.get) takes place only if the other side answers, and no call in
\* the source sets a timeout.
FairSpec == Spec /\ WF_vars(WfcCheck) /\ WF_vars(WfcSleep)

\* the instance is driven through process_news_request, and the caller may
\* wait again, with an interval and a timeout of its own, for the run that
\* the instance holds; time.sleep and the deadline test always return
NextWait ==
    \/ ProcessNewsRequest
    \/ CallWait
    \/ CreateThread
    \/ CreateAssistant
    \/ AddMessageToThread
    \/ RunAssistant
    \/ WaitForCompletion
    \/ WfcCheck
    \/ WfcSleep
    \/ WfcRetrieve

WaitSpec ==
    Init /\ [][NextWait]_vars /\ WF_vars(WfcCheck) /\ WF_vars(WfcSleep)

\* the instance is driven through process_news_request, and the caller may
\* also call the methods that set it up: create_thread,
\* create_assistant(custom_config) and add_message_to_thread
NextSetup ==
    \/ ProcessNewsRequest
    \/ CallSetup
    \/ CreateThread
    \/ CreateAssistant
    \/ AddMessageToThread
    \/ RunAssistant
    \/ WaitForCompletion
    \/ WfcCheck
    \/ WfcSleep
    \/ WfcRetrieve

SetupSpec == Init /\ [][NextSetup]_vars

\* the caller drives the instance method by method: it may set up the thread
\* and the assistant, and call the four methods that start with a test of
\* what the instance holds (lines 152-155, 170-171, 206-207, 230-231)
NextGuard ==
    \/ CallGuard
    \/ CreateThread
    \/ CreateAssistant
    \/ RunAssistant
    \/ WaitForCompletion
    \/ WfcCheck
    \/ WfcSleep
    \/ WfcRetrieve
    \/ HandleRequiredActionsCall
    \/ ProcessMessagesCall

GuardSpec == Init /\ [][NextGuard]_vars

\* ------------------------------------------------------------------ claims
IdsOfBatch(b) == {b[i].id : i \in 1..Len(b)}
IdsOfOutputs(o) == {o[i].tool_call_id : i \in 1..Len(o)}

\* whether the for loop of handle_required_actions gets past this ToolCall,
\* as the claims put it: only a get_news call with parsable arguments that
\* hold a topic is dispatched successfully
Dispatchable(call) == call.name = "get_news" /\ call.arguments = "topic"

\* position of the first ToolCall of b that fails, 0 when none does
FirstFailing(b) ==
    IF \E i \in 1..Len(b) : ~Dispatchable(b[i])
    THEN CHOOSE i \in 1..Len(b) :
            /\ ~Dispatchable(b[i])
            /\ \A j \in 1..(i - 1) : Dispatchable(b[j])
    ELSE 0

\* the errors a failing ToolCall can trigger: the parse error for unparsable
\* argument text, the unknown-tool error for an unregistered name, the
\* missing-argument error for a get_news call without a topic
Triggers(call) ==
    {e \in {ErrJSONDecode, ErrUnknownFunction, ErrKey} :
        \/ e = ErrJSONDecode /\ call.arguments = "malformed"
        \/ e = ErrUnknownFunction /\ call.name # "get_news"
        \/ e = ErrKey /\ call.name = "get_news" /\ call.arguments = "no_topic"}

\* C1: whenever handle_required_actions calls submit_tool_outputs, the set of
\* tool_call_id values it submits is exactly the set of ToolCall ids of the
\* batch it was given, and one output is submitted per call.
C1_SubmittedIdsAreRequestedIds ==
    obs.submit =>
        /\ Len(obs.calls) = obs.size
        /\ IdsOfOutputs(obs.outputs) = IdsOfBatch(obs.calls)
        /\ Len(obs.outputs) = obs.size

\* C1 witness: a batch of two tool calls, the higher id first, has been
\* submitted from inside the poll loop.
C1_Witness ==
    /\ obs.submit
    /\ Len(obs.calls) = 2
    /\ obs.calls[1].id = 2
    /\ pc = "wfc_check"

\* C2: when the dispatch of any ToolCall of a batch fails, at any position,
\* submit_tool_outputs is not called for it and the call under way has ended
\* with an error that the first failing ToolCall triggers.
C2_AllOrNothing ==
    (obs.handled /\ FirstFailing(obs.calls) # 0) =>
        /\ ~obs.submit
        /\ obs.outputs = <<>>
        /\ pc = "idle"
        /\ err \in Triggers(obs.calls[FirstFailing(obs.calls)])
        /\ ret = IF op = "process_news_request" THEN NoneStr ELSE "raised"

\* C2 witness: inside process_news_request, the second ToolCall of a batch
\* failed after the first had been dispatched.
C2_Witness ==
    /\ obs.handled
    /\ FirstFailing(obs.calls) = 2
    /\ op = "process_news_request"
    /\ pc = "idle"

\* the ToolCall at which the for loop stopped is one of an unregistered name
UnknownDispatched ==
    /\ obs.handled
    /\ FirstFailing(obs.calls) # 0
    /\ obs.calls[FirstFailing(obs.calls)].name # "get_news"

\* C3 as stated: dispatching a ToolCall of an unregistered name aborts the
\* run attempt with the unknown-tool error, submit_tool_outputs is not
\* reached and the poll loop does not go on.
C3_Original ==
    UnknownDispatched =>
        /\ err = ErrUnknownFunction
        /\ ~obs.submit
        /\ pc = "idle"

\* C3 amended: dispatching a ToolCall of an unregistered name aborts the run
\* attempt, submit_tool_outputs is not reached and the poll loop does not go
\* on; the error is the unknown-tool error when the argument text of the
\* call parses, and the parse error when it does not (json.loads comes
\* before the test of the name).
C3_UnknownToolAborts ==
    UnknownDispatched =>
        /\ err = IF obs.calls[FirstFailing(obs.calls)].arguments = "malformed"
                 THEN ErrJSONDecode ELSE ErrUnknownFunction
        /\ ~obs.submit
        /\ pc = "idle"
        /\ ret = IF op = "process_news_request" THEN NoneStr ELSE "raised"

\* C3 witness: process_news_request ended on a ToolCall of an unregistered
\* name whose arguments parse.
C3_Witness ==
    /\ UnknownDispatched
    /\ obs.calls[FirstFailing(obs.calls)].arguments = "topic"
    /\ op = "process_news_request"
    /\ err = ErrUnknownFunction

\* positions of the poll loop of wait_for_completion
WaitPcs == {"wfc_check", "wfc_sleep", "wfc_retrieve"}

\* errors that come from a remote call or a tool dispatch, which a stub
\* that only ever answers queued or in_progress never causes
RemoteOrToolErrors == {ErrAPI, ErrJSONDecode, ErrKey, ErrUnknownFunction}

\* C4: while the run status never becomes terminal and remote calls take no
\* time, the poll loop has not run longer than timeout + interval; the only
\* way it ends then is the Timeout error raised at the deadline test, which
\* happens after more than timeout and at most timeout + interval seconds;
\* and the loop does end whenever its remote calls keep returning.
C4_TimeoutWithinBudget ==
    /\ []((pc \in WaitPcs /\ callTime = 0) => elapsed <= timeout + interval)
    /\ [][(pc = "wfc_check" /\ pc' = "idle") =>
            /\ err' = ErrTimeout
            /\ elapsed > timeout
            /\ callTime = 0 => elapsed <= timeout + interval]_vars
    /\ [][(pc = "wfc_retrieve" /\ pc' = "idle") =>
            \/ runStatus'[run] \in TerminalStatuses
            \/ err' \in RemoteOrToolErrors]_vars
    /\ ([]<>(pc # "wfc_retrieve")) => ((pc \in WaitPcs) ~> (pc = "idle"))

\* C4 witness: wait_for_completion(interval=1, timeout=3) stands at the
\* deadline test 4 seconds after it started, every fetch so far having left
\* it in the loop and no remote call having taken time.
C4_Witness ==
    /\ pc = "wfc_check"
    /\ op = "wait_for_completion"
    /\ interval = 1 /\ timeout = 3
    /\ elapsed = 4 /\ callTime = 0
    /\ runStatus[run] = "active"

\* C5 as stated: the poll loop never waits indefinitely, whatever the remote
\* service does: a wait_for_completion that has started always ends.
C5_LoopAlwaysEnds == (pc \in WaitPcs) ~> (pc = "idle")

\* C6 as stated: in every reachable state at most one run of the
\* conversation is non-terminal at the remote service.
C6_AtMostOneActiveRun ==
    Cardinality({r \in 1..MaxRuns : runStatus[r] = "active"}) <= 1

\* the text of the newest message when it is an assistant message that has
\* text, None otherwise
NewestAnswer(msgs) ==
    IF msgs = <<>> THEN NoneStr
    ELSE LET newest == msgs[Len(msgs)] IN
         IF newest.role = "assistant" /\ newest.content # <<>>
         THEN newest.content[1] ELSE NoneStr

PnrEnded == op = "process_news_request" /\ pc = "idle"

\* C7 as stated: every process_news_request call whose run completed
\* returns the text of the newest message when that is an assistant message,
\* and None otherwise.
C7_CompletedReturnsNewest ==
    (PnrEnded /\ err = NoErr /\ run # 0 /\ runStatus[run] = "completed") =>
        ret = NewestAnswer(messages)

\* what process_news_request returns on a fresh instance when the run
\* completed and the thread holds no assistant message
NoAnswerOutcome ==
    ProcessMessages(ListMessages(<<Message("user", <<Prompt("bitcoin")>>)>>),
                    NoneStr)

\* C8 as stated: a process_news_request call that failed gives its caller an
\* outcome other than the one of a run that completed without an answer.
C8_FailureDistinctFromNoAnswer ==
    (PnrEnded /\ err # NoErr) => ret # NoAnswerOutcome

\* C9: inside process_news_request, the fetch that answers failed, cancelled
\* or expired ends the call at that tick with the run-failed error carrying
\* that status: nothing is dispatched or submitted, no message is listed,
\* no run is created; and the poll loop never polls a run that has ended.
C9_AbnormalStatusStops ==
    /\ [][(pc = "wfc_retrieve" /\ runStatus'[run] \in AbnormalStatuses) =>
            /\ pc' = "idle"
            /\ err' = ErrRunFailed(runStatus'[run])
            /\ ret' = NoneStr
            /\ ~obs'.handled /\ ~obs'.submit
            /\ summary' = summary /\ messages' = messages
            /\ run' = run
            /\ CreatedRuns' = CreatedRuns]_vars
    /\ [](pc \in WaitPcs => runStatus[run] = "active")

\* C9 witness: process_news_request has ended on a fetch that answered
\* expired.
C9_Witness ==
    /\ PnrEnded
    /\ obs.fetched = "expired"
    /\ err = ErrRunFailed("expired")
    /\ runStatus[run] = "expired"

\* C10: when the fetches of a process_news_request call answer queued, then
\* requires_action with one get_news call, then completed with an assistant
\* message newest in the thread, the call has submitted exactly one tool
\* output, for that tool call, before the completed fetch, and returns the
\* text of that message.
C10_ScenarioA ==
    /\ (scen = 2 /\ pc = "wfc_check") =>
        /\ obs.handled /\ obs.submit
        /\ Len(obs.outputs) = 1
        /\ obs.outputs[1].tool_call_id = obs.calls[1].id
        /\ obs.outputs[1].output \in {JsonDumps("article"), JsonDumps("")}
    /\ (scen = 3 /\ op = "process_news_request") =>
        /\ pc = "idle"
        /\ err = NoErr
        /\ obs.fetched = "completed"
        /\ ret = messages[Len(messages)].content[1]
        /\ ret = AnswerText(run)

\* C10 witness: a second process_news_request on the instance went through
\* the sequence and returned the answer to its own run.
C10_Witness ==
    /\ scen = 3
    /\ PnrEnded
    /\ run = 2
    /\ ret = AnswerText(2)

C12_ThreadCreatedOnce ==
    /\ [](created.threads <= 1 /\ thread = created.threads)
    /\ [][thread # 0 =>
            /\ thread' = thread
            /\ created'.threads = created.threads]_vars

\* C12 witness: a create_thread call made after the thread had been created
\* and had received messages returned without creating anything.
C12_Witness ==
    /\ op = "create_thread"
    /\ pc = "idle"
    /\ err = NoErr
    /\ thread = 1
    /\ created.threads = 1
    /\ created.byCall = 0
    /\ Len(messages) >= 2

\* C13: nothing is created at construction; a process_news_request that gets
\* past create_assistant without an assistant has created it, with the
\* default configuration; assistants.create succeeds at most once per
\* instance, and once an assistant is held no step, create_assistant with a
\* custom configuration included, creates another, changes the one held or
\* changes its configuration.
C13_AssistantCreatedOnce ==
    /\ [](op = "none" => (assistant = 0 /\ created.assistants = 0))
    /\ [](created.assistants <= 1 /\ assistant = created.assistants)
    /\ [][(pc = "create_assistant" /\ caller = "pnr" /\ assistant = 0
             /\ pc' # "idle") =>
            /\ pc' = "add_message_to_thread"
            /\ assistant' # 0
            /\ created'.config = "default"]_vars
    /\ [][assistant # 0 =>
            /\ assistant' = assistant
            /\ created'.assistants = created.assistants
            /\ created'.config = created.config]_vars

\* C13 witness: a create_assistant call from outside returned without
\* creating anything, the assistant having been created before with the
\* default configuration.
C13_Witness ==
    /\ op = "create_assistant"
    /\ pc = "idle"
    /\ err = NoErr
    /\ assistant = 1
    /\ created.config = "default"
    /\ created.byCall = 0

\* C15: add_message_to_thread never raises the not-initialized error; it
\* posts a message only to a thread, which it has created first when none
\* was held; and when no thread comes to be held (threads.create raised) no
\* message is posted and the call ends with that error.
C15_AddMessageCreatesThread ==
    [][pc = "add_message_to_thread" =>
         /\ err' # ErrNotInitialized
         /\ messages' # messages =>
              /\ thread' # 0
              /\ Len(messages') = Len(messages) + 1
              /\ messages'[Len(messages')].role = "user"
              /\ SubSeq(messages', 1, Len(messages)) = messages
         /\ (thread = 0 /\ messages' # messages) =>
              /\ created'.threads = created.threads + 1
              /\ thread' = created'.threads
         /\ thread' = 0 =>
              /\ messages' = messages
              /\ err' = ErrAPI
              /\ pc' = "idle"]_vars

\* C15 witness: an add_message_to_thread call made from outside on an
\* instance without a thread has created the thread and posted its message.
C15_Witness ==
    /\ op = "add_message_to_thread"
    /\ pc = "idle"
    /\ err = NoErr
    /\ thread = 1
    /\ created.byCall = 1
    /\ Len(messages) = 1

\* the order of the steps of one process_news_request call: from each
\* position to the next one, or out of the call
PnrSteps == {"create_thread", "create_assistant", "add_message_to_thread",
             "run_assistant", "wait_for_completion"} \cup WaitPcs

PnrOrder ==
    {<<"idle", "create_thread">>,
     <<"create_thread", "create_assistant">>,
     <<"create_assistant", "add_message_to_thread">>,
     <<"add_message_to_thread", "run_assistant">>,
     <<"run_assistant", "wait_for_completion">>,
     <<"wait_for_completion", "wfc_check">>,
     <<"wfc_check", "wfc_sleep">>,
     <<"wfc_sleep", "wfc_retrieve">>,
     <<"wfc_retrieve", "wfc_check">>}
    \cup {<<p, "idle">> : p \in PnrSteps}

\* C14: a process_news_request call goes through its steps in the order
\* conversation, agent, user message, run, poll, each once; the orchestrator
\* adds a message only at its message step, as the newest message of the
\* thread, with thread and assistant held; it starts a run only at its run
\* step, one run, when the newest message is the user message just posted;
\* it polls only a run that is not terminal; and a step that raises ends the
\* call with None, so that no later step takes place.
C14_StepsInOrder ==
    /\ [][pc' # pc => <<pc, pc'>> \in PnrOrder]_vars
    /\ [][(messages' # messages /\ pc # "wfc_retrieve") =>
            /\ pc = "add_message_to_thread"
            /\ pc' = "run_assistant"
            /\ thread # 0 /\ assistant # 0
            /\ \E topic \in Topics :
                 messages' = Append(messages, Message("user", <<Prompt(topic)>>))
         ]_vars
    /\ [][runStatus' # runStatus /\ pc # "wfc_retrieve" =>
            /\ pc = "run_assistant"
            /\ pc' = "wait_for_completion"
            /\ run' = Cardinality(CreatedRuns) + 1
            /\ CreatedRuns' = CreatedRuns \cup {run'}
            /\ messages # <<>>
            /\ messages[Len(messages)].role = "user"]_vars
    /\ [][run' # run => runStatus' # runStatus]_vars
    /\ [](pc \in {"wait_for_completion"} \cup WaitPcs =>
            runStatus[run] = "active")
    /\ [][(pc # "idle" /\ err' # NoErr) =>
            /\ pc' = "idle"
            /\ ret' = NoneStr]_vars

\* C14 witness: the second process_news_request call on the instance has
\* returned; the thread holds the user message of the first call, the
\* answer to it, and the user message of the second call, in that order.
C14_Witness ==
    /\ PnrEnded
    /\ err = NoErr
    /\ run = 2
    /\ Len(messages) = 3
    /\ messages[1].role = "user"
    /\ messages[2].role = "assistant"
    /\ messages[3].role = "user"

\* C16: a status fetch is made only right after a sleep of the whole
\* interval: the position of the fetch is entered only from the sleep, which
\* adds interval to the elapsed time; this holds for the first fetch of a
\* wait, which starts at the deadline test, and for the fetch after a
\* submission: a requires_action tick that raises nothing leaves the run
\* non-terminal and goes on with the deadline test of the next tick.
C16_SleepBeforeEveryFetch ==
    /\ [][pc' = "wfc_retrieve" =>
            /\ pc = "wfc_sleep"
            /\ interval >= 1
            /\ elapsed' = elapsed + interval]_vars
    /\ [][(obs' # obs /\ obs'.fetched # "none") => pc = "wfc_retrieve"]_vars
    /\ [][(pc = "wait_for_completion" /\ pc' # "idle") =>
            /\ pc' = "wfc_check"
            /\ elapsed' = 0]_vars
    /\ [][(pc = "wfc_retrieve" /\ obs'.fetched = "requires_action"
             /\ err' = NoErr) =>
            /\ obs'.handled /\ obs'.submit
            /\ pc' = "wfc_check"
            /\ runStatus'[run] = "active"]_vars

\* C16 witness: the second fetch of a wait is about to be made, two whole
\* intervals after the wait started, the first tick having ended with a
\* submission.
C16_Witness ==
    /\ pc = "wfc_retrieve"
    /\ ticks = 1
    /\ resub = 1
    /\ callTime = 0
    /\ elapsed = 2 * interval

\* C17: the timeout error is raised only by the deadline test at the start
\* of a tick and only when the elapsed time exceeds timeout; a tick that
\* starts with elapsed <= timeout goes on to the sleep and then to the fetch;
\* and what is fetched after the deadline has passed is still acted on:
\* completed yields the summary and ends the wait normally, requires_action
\* is dispatched.
C17_TimeoutOnlyAtTickStart ==
    /\ [][(pc \in WaitPcs /\ err' = ErrTimeout) =>
            /\ pc = "wfc_check"
            /\ elapsed > timeout]_vars
    /\ [][(pc = "wfc_check" /\ elapsed <= timeout) =>
            /\ pc' = "wfc_sleep"
            /\ err' = NoErr]_vars
    /\ [][pc = "wfc_sleep" => pc' = "wfc_retrieve"]_vars
    /\ [][(pc = "wfc_retrieve" /\ elapsed > timeout
             /\ runStatus'[run] = "completed" /\ err' = NoErr) =>
            /\ pc' = "idle"
            /\ summary' = ProcessMessages(ListMessages(messages'), summary)
            /\ caller = "pnr" => ret' = summary']_vars
    /\ [][(pc = "wfc_retrieve" /\ elapsed > timeout
             /\ obs'.fetched = "requires_action") => obs'.handled]_vars

\* C17 witness: a tick that began within the budget has fetched
\* requires_action after the budget had passed and has submitted the tool
\* outputs; the wait is back at the deadline test.
C17_Witness ==
    /\ pc = "wfc_check"
    /\ op = "wait_for_completion"
    /\ obs.handled /\ obs.submit
    /\ elapsed > timeout
    /\ elapsed <= timeout + interval
    /\ callTime = 0

\* whether the prerequisite of the method at position p is missing
PrerequisiteMissing(p) ==
    CASE p = "run_assistant" -> assistant = 0 \/ thread = 0
      [] p = "wait_for_completion" -> thread = 0 \/ run = 0
      [] p = "handle_required_actions" -> run = 0
      [] p = "process_messages" -> thread = 0
      [] OTHER -> FALSE

\* C18: run_assistant without an assistant or a thread, wait_for_completion
\* without a thread or a run, handle_required_actions without a run and
\* process_messages without a thread end at once with the not-initialized
\* error: the instance, the runs and messages of the remote service, what
\* has been created there and what has been fetched and submitted are all
\* unchanged.
C18_NotInitializedBeforeRemoteCall ==
    [][PrerequisiteMissing(pc) =>
         /\ pc' = "idle"
         /\ err' = ErrNotInitialized
         /\ ret' = "raised"
         /\ UNCHANGED <<instanceVars, waitVars, runStatus, messages, created,
                        obs>>]_vars

\* C18 witness: wait_for_completion was called on an instance that holds a
\* thread and an assistant but no run, and raised the not-initialized error.
C18_Witness ==
    /\ op = "wait_for_completion"
    /\ pc = "idle"
    /\ err = ErrNotInitialized
    /\ thread # 0 /\ assistant # 0
    /\ run = 0

\* C19: within one run, a batch of required actions is dispatched and
\* submitted at most once: when the fetch of the tick that follows a
\* submission reports requires_action with the same batch again, the tools
\* are not dispatched and submit_tool_outputs is not called a second time.
\* resub counts the consecutive ticks of one wait on which RepeatedBatch was
\* fetched, dispatched and submitted; the property says it never reaches 2.
C19_BatchSubmittedOnce == resub < 2

\* C20 as stated: a process_news_request call that ended with an error
\* returned None and left the conversation and the agent as they were when
\* it was called: no thread and no assistant was created during the call.
C20_Original ==
    (PnrEnded /\ err # NoErr) =>
        /\ ret = NoneStr
        /\ created.byCall = 0

\* C20 amended: the step on which process_news_request ends with an error
\* gives None to the caller and leaves the stored summary, thread and
\* assistant as they are; a thread or an assistant is only ever stored when
\* none was held, so a failing call does not replace one it was called with
\* but keeps one it created before the failing step; the stored summary is
\* written only on the step of the poll loop whose fetch answered completed,
\* by process_messages, and that step ends the call without an error.
C20_ErrorKeepsInstance ==
    /\ [][(caller = "pnr" /\ err' # NoErr) =>
            /\ pc' = "idle"
            /\ ret' = NoneStr
            /\ UNCHANGED <<summary, thread, assistant>>]_vars
    /\ [][thread' # thread => thread = 0]_vars
    /\ [][assistant' # assistant => assistant = 0]_vars
    /\ [][summary' # summary =>
            /\ pc = "wfc_retrieve"
            /\ runStatus'[run] = "completed"
            /\ summary' = ProcessMessages(ListMessages(messages'), summary)
            /\ pc' = "idle"
            /\ err' = NoErr]_vars

\* C20 witness: a process_news_request call on an instance that held a
\* summary, a thread and an assistant has ended with an error: it returned
\* None and the summary is still held.
C20_Witness ==
    /\ PnrEnded
    /\ err # NoErr
    /\ created.byCall = 0
    /\ summary # NoneStr
    /\ ret = NoneStr

====
